---- MODULE Spec2Model ----
(***************************************************************************)
(* Hand Gesture Recognition API (app/main.py).                             *)
(*                                                                         *)
(* The module models the three request handlers of the FastAPI app         *)
(* (/health, /predict, /app-metrics), the module-level model loading, the  *)
(* three module-level metric counters, and normalize_landmarks.            *)
(*                                                                         *)
(* Numbers.  A landmark coordinate is a float.  The only arithmetic the    *)
(* program does on coordinates is  (x - wrist) / scale  with               *)
(* scale = sqrt(dx^2 + dy^2), so a float is kept exactly as the pair       *)
(* [n, d2] standing for n / sqrt(d2):  a raw coordinate x is [x, 1],       *)
(* d2 = 0 is the IEEE result of a division by zero (n = 0: NaN,            *)
(* n = 1 / -1: +inf / -inf).                                               *)
(*                                                                         *)
(* Scheduling.  The handlers are `async def` coroutines run by one event   *)
(* loop: a coroutine runs without interruption from one `await` to the     *)
(* next.  `running` holds the request whose coroutine owns the loop; the   *)
(* read-modify-write statements on the global counters are separate steps  *)
(* of the model, and Yields says after which of them the loop may switch.  *)
(***************************************************************************)
EXTENDS Integers, Sequences, FiniteSets, TLC

VARIABLES
    model,              \* main.py:66-75  the unpickled classifier, or "None"
    label_encoder,      \* main.py:66-75  the unpickled label encoder, or "None"
    column_store_shared,\* whether the arrays `.values` returned alias the storage
                        \* that `df[col] = ...` overwrites (depends on the pandas build)
    prediction_count,   \* main.py:96
    error_count,        \* main.py:97
    latency_sum,        \* main.py:98
    requests,           \* the /predict calls: payload, position, locals, response
    running,            \* the request whose coroutine owns the event loop, 0 if none
    report,             \* the body /app-metrics returns in this step, else NoReport
    health,             \* the body /health returns in this step, else NoHealth
    frame,              \* main.py:16  the argument df of a call of normalize_landmarks
    normalized          \* main.py:33  the frame that call returns, <<>> before it

vars == <<model, label_encoder, column_store_shared, prediction_count, error_count,
          latency_sum, requests, running, report, health, frame, normalized>>

counters == <<prediction_count, error_count, latency_sum>>
\* what no handler assigns
fixed == <<model, label_encoder, column_store_shared, frame, normalized>>

----------------------------------------------------------------------------
(* Bounds of the model *)

MaxRequests == 2        \* number of /predict calls dispatched
MaxLatency == 1         \* time.time() - start_time ranges over 0..MaxLatency
MaxCoord == 1           \* landmark coordinates range over 0..MaxCoord

(* Program constants *)

NUM_FEATURES == 63      \* main.py:128  len(landmarks) != 63
NUM_LANDMARKS == 21     \* main.py:25   range(1, 22)
TIP == 13               \* main.py:20   df['x13'], df['y13']
SHORT_LEN == 50         \* test_api.py:45  np.random.rand(50)

RequestIds == 1..MaxRequests
Latencies == 0..MaxLatency
Coords == 0..MaxCoord

----------------------------------------------------------------------------
(* Floats as n / sqrt(d2) *)

Raw(x) == [n |-> x, d2 |-> 1]
NaN == [n |-> 0, d2 |-> 0]
Inf(sign) == [n |-> sign, d2 |-> 0]
IsNaN(v) == v.d2 = 0 /\ v.n = 0
IsInf(v) == v.d2 = 0 /\ v.n # 0
IsFinite(v) == v.d2 > 0
IsZero(v) == v.d2 > 0 /\ v.n = 0

\* a - b in float arithmetic, for the operands normalize_landmarks produces
FSub(a, b) ==
    CASE IsNaN(a) \/ IsNaN(b) -> NaN
      [] IsInf(a) /\ IsInf(b) -> IF a.n = b.n THEN NaN ELSE a
      [] IsInf(a) -> a
      [] IsInf(b) -> Inf(0 - b.n)
      [] IsZero(b) -> a
      [] IsZero(a) -> [n |-> 0 - b.n, d2 |-> b.d2]
      [] a.d2 = b.d2 -> [n |-> a.n - b.n, d2 |-> a.d2]

\* a / sqrt(s2) in float arithmetic (numpy: division by zero gives nan or inf)
FDivSqrt(a, s2) ==
    CASE IsNaN(a) -> NaN
      [] IsInf(a) -> a
      [] s2 = 0 -> IF a.n = 0 THEN NaN ELSE IF a.n > 0 THEN Inf(1) ELSE Inf(0 - 1)
      [] a.d2 = 1 -> [n |-> a.n, d2 |-> s2]

----------------------------------------------------------------------------
(* main.py:135  feature_names: x1,y1,z1,x2,y2,z2,...,x21,y21,z21 *)

XCol(i) == 3 * (i - 1) + 1
YCol(i) == 3 * (i - 1) + 2

\* main.py:134-136  np.array(landmarks).reshape(1, -1) as a one-row frame
BuildFrame(items) == [k \in 1..Len(items) |-> Raw(items[k])]

\* main.py:23  the square of scale_factor, from the raw columns
ScaleSq(df) ==
    LET dx == df[XCol(TIP)].n - df[XCol(1)].n
        dy == df[YCol(TIP)].n - df[YCol(1)].n
    IN dx * dx + dy * dy

\* main.py:25-27  the loop; wx0, wy0 are the values wrist_x, wrist_y held
\* when they were taken (lines 18-19); when the arrays alias the frame the
\* loop reads the columns x1, y1 as they are now.
RECURSIVE NormalizeFrom(_, _, _, _, _, _)
NormalizeFrom(df, i, wx0, wy0, s2, shared) ==
    IF i > NUM_LANDMARKS THEN df
    ELSE LET wrist_x == IF shared THEN df[XCol(1)] ELSE wx0
             df1 == [df EXCEPT ![XCol(i)] = FDivSqrt(FSub(df[XCol(i)], wrist_x), s2)]
             wrist_y == IF shared THEN df1[YCol(1)] ELSE wy0
             df2 == [df1 EXCEPT ![YCol(i)] = FDivSqrt(FSub(df1[YCol(i)], wrist_y), s2)]
         IN NormalizeFrom(df2, i + 1, wx0, wy0, s2, shared)

\* main.py:16-33
normalize_landmarks(df, shared) ==
    NormalizeFrom(df, 1, df[XCol(1)], df[YCol(1)], ScaleSq(df), shared)

FrameFinite(df) == \A k \in DOMAIN df : IsFinite(df[k])

----------------------------------------------------------------------------
(* Request bodies.  A JSON value is [t, n, items]: t its type, n its number
   (t = "num") or its length (t = "str", "list"), items the elements of a
   list.  "none" is what data.get("landmarks") gives for a missing member
   or a JSON null. *)

JNone == [t |-> "none", n |-> 0, items |-> <<>>]
JNum(v) == [t |-> "num", n |-> v, items |-> <<>>]
JStr(len) == [t |-> "str", n |-> len, items |-> <<>>]
JList(items) == [t |-> "list", n |-> Len(items), items |-> items]

\* body: "unparseable" (not JSON), "nonobject" (JSON, but no object: an
\* array, a number, a string, null), "object"
Body(kind, l) == [body |-> kind, landmarks |-> l]
NoPayload == Body("none", JNone)

\* 63 values: wrist (wx, wy, 1), middle finger tip (tx, ty, 1), the others (e, e, 1)
LandmarkList(wx, wy, tx, ty, e) ==
    [k \in 1..NUM_FEATURES |->
        IF k = XCol(1) THEN wx
        ELSE IF k = YCol(1) THEN wy
        ELSE IF k = XCol(TIP) THEN tx
        ELSE IF k = YCol(TIP) THEN ty
        ELSE IF k % 3 = 0 THEN 1 ELSE e]

\* a pose whose wrist and middle finger tip differ, and one where they coincide
OpenHand == LandmarkList(1, 1, 0, 0, 0)
DegenerateHand == LandmarkList(1, 1, 1, 1, 0)

ShortList == [k \in 1..SHORT_LEN |-> 1]

Payloads ==
    { Body("unparseable", JNone), Body("nonobject", JNone),
      Body("object", JNone), Body("object", JNum(0)), Body("object", JNum(5)),
      Body("object", JList(<<>>)), Body("object", JList(ShortList)),
      Body("object", JStr(NUM_FEATURES)) }
    \cup { Body("object", JList(OpenHand)), Body("object", JList(DegenerateHand)) }

\* Python truth value and len()
Truthy(v) ==
    CASE v.t = "none" -> FALSE
      [] v.t = "num" -> v.n # 0
      [] v.t \in {"str", "list"} -> v.n > 0
HasLen(v) == v.t \in {"str", "list"}

----------------------------------------------------------------------------
(* Responses *)

NoResponse == [status |-> 0, detail |-> "", unhandled |-> FALSE]
\* raise HTTPException(status_code=..., detail=...)
HTTPException(code, text) == [status |-> code, detail |-> text, unhandled |-> FALSE]
\* main.py:151-156  the success body (gesture, direction, confidence and
\* timestamp are values of the classifier and the clock; no counter or
\* branch depends on them)
Success == [status |-> 200, detail |-> "", unhandled |-> FALSE]
\* an exception that leaves the handler: the framework answers 500
Unhandled == [status |-> 500, detail |-> "Internal Server Error", unhandled |-> TRUE]

\* a quotient a / b of the program, kept exact
PyDiv(a, b) == [num |-> a, den |-> b]

NoHealth == [called |-> FALSE, status |-> "", model_loaded |-> FALSE]
NoReport ==
    [called |-> FALSE, prediction_count |-> 0, error_count |-> 0,
     error_rate |-> PyDiv(0, 1), average_latency |-> PyDiv(0, 1),
     input_validation_errors |-> 0]
\* a step of /predict returns no /health and no /app-metrics body
NoReply == report' = NoReport /\ health' = NoHealth

ZeroCounters == [prediction_count |-> 0, error_count |-> 0, latency_sum |-> 0]
CountersNow ==
    [prediction_count |-> prediction_count, error_count |-> error_count,
     latency_sum |-> latency_sum]

\* payload: the body of the request, known once request.json() has read it
\* or the handler has answered without reading it (NoPayload before that).
\* pc: "new" (not dispatched), "await_json" (suspended at main.py:122), then
\* the statement the coroutine executes next, "done" after the response.
\* latency, exc: the locals `latency` and `e`; reg: the value read by the
\* `+=` in progress; before: the counters when the try block at main.py:132
\* was entered (kept while the handler runs); called_model: whether
\* model.predict was called; features_finite: whether the frame handed to it
\* held only finite values.
NewRequest ==
    [pc |-> "new", payload |-> NoPayload, latency |-> 0, exc |-> "", reg |-> 0,
     before |-> ZeroCounters, called_model |-> FALSE, features_finite |-> TRUE,
     response |-> NoResponse]

----------------------------------------------------------------------------
(* predict_gesture, main.py:111-161 *)

\* main.py:117  model is None or label_encoder is None
NotLoadedM(m, e) == FALSE
NotLoaded(m, e) == m = "None" \/ e = "None"

\* main.py:121-126  request.json() raises on a body that is no JSON, and
\* data.get raises AttributeError on a JSON value that is no object; both are
\* caught at line 124.
ParsesToObject(p) == p.body = "object"

\* main.py:128  not landmarks or len(landmarks) != 63; len() of a number
\* raises TypeError, outside every try.
ValidateLandmarksShort(l) ==
    IF ~Truthy(l) THEN "reject"
    ELSE IF ~HasLen(l) THEN "TypeError"
    ELSE IF l.n > NUM_FEATURES THEN "reject"
    ELSE "ok"
ValidateLandmarksM(l) ==
    IF ~Truthy(l) THEN "reject"
    ELSE IF ~HasLen(l) THEN "TypeError"
    ELSE "ok"
ValidateLandmarks(l) ==
    IF ~Truthy(l) THEN "reject"
    ELSE IF ~HasLen(l) THEN "TypeError"
    ELSE IF l.n # NUM_FEATURES THEN "reject"
    ELSE "ok"

\* main.py:134-136  reshape(1, -1) of a list gives one row of len(list)
\* columns, of a string one row of one column; the DataFrame constructor
\* raises ValueError unless there are 63 columns.
FrameBuilds(l) == l.t = "list" /\ l.n = NUM_FEATURES

\* main.py:138-142  model.predict, model.predict_proba and
\* label_encoder.inverse_transform are calls into the unpickled objects:
\* each returns or raises.  None has no attribute predict.
ClassifierOutcomes(m) == IF m = "None" THEN {"raise"} ELSE {"ok", "raise"}

\* main.py:161  HTTPException(status_code=500, detail=str(e))
ErrorResponseM(e) == HTTPException(500, "Internal Server Error")
ErrorResponse(e) == HTTPException(500, e)

\* Whether the event loop may switch to another coroutine before the
\* statement at `label`: only at the `await` of main.py:122.
YieldsM(label) == TRUE
Yields(label) == label = "await_json"

Release(r, label) == IF label = "done" \/ Yields(label) THEN 0 ELSE r
CanRun(r) == running \in {0, r}

\* main.py:111-122  up to the await.  The handler has not read the body
\* yet; p, the body the client sent, is recorded when the handler answers
\* without reading it.
Arrive(r, p) ==
    /\ requests[r].pc = "new"
    /\ IF r = 1 THEN TRUE ELSE requests[r - 1].pc # "new"
    /\ CanRun(r)
    /\ IF NotLoaded(model, label_encoder)
       THEN requests' = [requests EXCEPT ![r] =
                [@ EXCEPT !.pc = "done", !.payload = p,
                          !.response = HTTPException(500, "Model or encoder not loaded")]]
       ELSE requests' = [requests EXCEPT ![r] = [@ EXCEPT !.pc = "await_json"]]
    /\ running' = Release(r, requests'[r].pc)
    /\ NoReply
    /\ UNCHANGED <<fixed, counters>>

\* The request record after main.py:122-145, given the body p that
\* request.json() read, what the classifier does and the elapsed time read
\* at line 145.
AfterAwait(req0, p, outcome, lat) ==
    LET req == [req0 EXCEPT !.payload = p]
        l == p.landmarks
        v == ValidateLandmarks(l)
        df == normalize_landmarks(BuildFrame(l.items), column_store_shared)
    IN  IF ~ParsesToObject(p)
        THEN [req EXCEPT !.pc = "done",
                         !.response = HTTPException(400, "Invalid JSON input")]
        ELSE IF v = "reject"
        THEN [req EXCEPT !.pc = "done",
                         !.response = HTTPException(400, "Expected 63 landmark features")]
        ELSE IF v = "TypeError"
        THEN [req EXCEPT !.pc = "done", !.response = Unhandled]
        ELSE IF ~FrameBuilds(l)
        THEN [req EXCEPT !.pc = "load_error_count", !.before = CountersNow,
                         !.exc = "Shape of passed values"]
        ELSE IF outcome = "raise"
        THEN [req EXCEPT !.pc = "load_error_count", !.before = CountersNow,
                         !.called_model = TRUE, !.features_finite = FrameFinite(df),
                         !.exc = "estimator failure"]
        ELSE [req EXCEPT !.pc = "load_latency_sum", !.before = CountersNow,
                         !.called_model = TRUE, !.features_finite = FrameFinite(df),
                         !.latency = lat]

\* main.py:122-145  from the await to the first counter statement
Resume(r, p) ==
    /\ requests[r].pc = "await_json"
    /\ CanRun(r)
    /\ \E outcome \in ClassifierOutcomes(model), lat \in Latencies :
          requests' = [requests EXCEPT ![r] = AfterAwait(@, p, outcome, lat)]
    /\ running' = Release(r, requests'[r].pc)
    /\ NoReply
    /\ UNCHANGED <<fixed, counters>>

\* main.py:146  latency_sum += latency
LoadLatencySum(r) ==
    /\ requests[r].pc = "load_latency_sum"
    /\ CanRun(r)
    /\ requests' = [requests EXCEPT ![r] =
            [@ EXCEPT !.pc = "store_latency_sum", !.reg = latency_sum]]
    /\ running' = Release(r, "store_latency_sum")
    /\ NoReply
    /\ UNCHANGED <<fixed, counters>>

StoreLatencySum(r) ==
    /\ requests[r].pc = "store_latency_sum"
    /\ CanRun(r)
    /\ latency_sum' = requests[r].reg + requests[r].latency
    /\ requests' = [requests EXCEPT ![r] = [@ EXCEPT !.pc = "load_prediction_count"]]
    /\ running' = Release(r, "load_prediction_count")
    /\ NoReply
    /\ UNCHANGED <<fixed, prediction_count,
                   error_count>>

\* main.py:147  prediction_count += 1
LoadPredictionCount(r) ==
    /\ requests[r].pc = "load_prediction_count"
    /\ CanRun(r)
    /\ requests' = [requests EXCEPT ![r] =
            [@ EXCEPT !.pc = "store_prediction_count", !.reg = prediction_count]]
    /\ running' = Release(r, "store_prediction_count")
    /\ NoReply
    /\ UNCHANGED <<fixed, counters>>

\* main.py:147-156  the store, then the return
StorePredictionCount(r) ==
    /\ requests[r].pc = "store_prediction_count"
    /\ CanRun(r)
    /\ prediction_count' = requests[r].reg + 1
    /\ requests' = [requests EXCEPT ![r] =
            [@ EXCEPT !.pc = "done", !.reg = 0, !.before = ZeroCounters,
                      !.response = Success]]
    /\ running' = Release(r, "done")
    /\ NoReply
    /\ UNCHANGED <<fixed, error_count,
                   latency_sum>>

\* main.py:159  error_count += 1
LoadErrorCount(r) ==
    /\ requests[r].pc = "load_error_count"
    /\ CanRun(r)
    /\ requests' = [requests EXCEPT ![r] =
            [@ EXCEPT !.pc = "store_error_count", !.reg = error_count]]
    /\ running' = Release(r, "store_error_count")
    /\ NoReply
    /\ UNCHANGED <<fixed, counters>>

\* main.py:159-161  the store, then the raise
StoreErrorCount(r) ==
    /\ requests[r].pc = "store_error_count"
    /\ CanRun(r)
    /\ error_count' = requests[r].reg + 1
    /\ requests' = [requests EXCEPT ![r] =
            [@ EXCEPT !.pc = "done", !.reg = 0, !.before = ZeroCounters,
                      !.response = ErrorResponse(requests[r].exc)]]
    /\ running' = Release(r, "done")
    /\ NoReply
    /\ UNCHANGED <<fixed, prediction_count,
                   latency_sum>>

----------------------------------------------------------------------------
(* health_check, main.py:101-107 (the timestamp is left out) *)

health_checkM(m) == [called |-> TRUE, status |-> "healthy", model_loaded |-> TRUE]
health_check(m) == [called |-> TRUE, status |-> "healthy", model_loaded |-> m # "None"]

HealthCheck ==
    /\ running = 0
    /\ health' = health_check(model)
    /\ report' = NoReport
    /\ UNCHANGED <<fixed, counters, requests,
                   running>>

(* get_metrics, main.py:165-184 (uptime, the timestamp and the constant
   status are left out) *)

PyMax(a, b) == IF a >= b THEN a ELSE b

get_metricsM(pc, ec, ls) ==
    [called |-> TRUE, prediction_count |-> pc, error_count |-> ec,
     error_rate |-> PyDiv(ec, PyMax(pc + ec, 1)),
     average_latency |-> IF pc > 0 THEN PyDiv(ls, pc) ELSE PyDiv(0, 1),
     input_validation_errors |-> ec]
get_metrics(pc, ec, ls) ==
    [called |-> TRUE, prediction_count |-> pc, error_count |-> ec,
     error_rate |-> PyDiv(ec, PyMax(pc, 1)),
     average_latency |-> IF pc > 0 THEN PyDiv(ls, pc) ELSE PyDiv(0, 1),
     input_validation_errors |-> ec]

GetMetrics ==
    /\ running = 0
    /\ report' = get_metrics(prediction_count, error_count, latency_sum)
    /\ health' = NoHealth
    /\ UNCHANGED <<fixed, counters, requests,
                   running>>

----------------------------------------------------------------------------
(* main.py:66-75  both pickles load, or the except branch sets both names
   to None; main.py:96-98  the counters start at zero. *)

LoadArtifacts(model_ok, encoder_ok) ==
    IF model_ok /\ encoder_ok
    THEN [model |-> "svm", label_encoder |-> "encoder"]
    ELSE [model |-> "None", label_encoder |-> "None"]

Init ==
    /\ \E model_ok \in BOOLEAN, encoder_ok \in BOOLEAN :
          /\ model = LoadArtifacts(model_ok, encoder_ok).model
          /\ label_encoder = LoadArtifacts(model_ok, encoder_ok).label_encoder
    /\ column_store_shared \in BOOLEAN
    /\ prediction_count = 0
    /\ error_count = 0
    /\ latency_sum = 0
    /\ requests = [r \in RequestIds |-> NewRequest]
    /\ running = 0
    /\ report = NoReport
    /\ health = NoHealth
    /\ frame = <<>>
    /\ normalized = <<>>

Next ==
    \/ \E r \in RequestIds, p \in Payloads : Arrive(r, p)
    \/ \E r \in RequestIds, p \in Payloads : Resume(r, p)
    \/ \E r \in RequestIds : LoadLatencySum(r)
    \/ \E r \in RequestIds : StoreLatencySum(r)
    \/ \E r \in RequestIds : LoadPredictionCount(r)
    \/ \E r \in RequestIds : StorePredictionCount(r)
    \/ \E r \in RequestIds : LoadErrorCount(r)
    \/ \E r \in RequestIds : StoreErrorCount(r)
    \/ HealthCheck
    \/ GetMetrics

Spec == Init /\ [][Next]_vars

----------------------------------------------------------------------------
(* normalize_landmarks on its own: the frames of one row built from
   coordinates in Coords, under both storage behaviours. *)

InputFrames ==
    { BuildFrame(LandmarkList(wx, wy, tx, ty, e)) :
        wx \in Coords, wy \in Coords, tx \in Coords, ty \in Coords, e \in Coords }

InitNorm ==
    /\ model = LoadArtifacts(TRUE, TRUE).model
    /\ label_encoder = LoadArtifacts(TRUE, TRUE).label_encoder
    /\ column_store_shared \in BOOLEAN
    /\ prediction_count = 0
    /\ error_count = 0
    /\ latency_sum = 0
    /\ requests = [r \in RequestIds |-> NewRequest]
    /\ running = 0
    /\ report = NoReport
    /\ health = NoHealth
    /\ frame \in InputFrames
    /\ normalized = <<>>

Normalize ==
    /\ normalized = <<>>
    /\ normalized' = normalize_landmarks(frame, column_store_shared)
    /\ UNCHANGED <<model, label_encoder, column_store_shared, counters, requests,
                   running, report, health, frame>>

NextNorm == Normalize

SpecNorm == InitNorm /\ [][NextNorm]_vars

----------------------------------------------------------------------------
(* What the requests show: the tallies the claims compare the counters with *)

Done(r) == requests[r].pc = "done"
Succeeded(r) == Done(r) /\ requests[r].response.status = 200
\* an exception was raised inside the try block of main.py:132
FailedAfterValidation(r) == Done(r) /\ requests[r].exc # ""
Loaded == model # "None" /\ label_encoder # "None"

RECURSIVE SumLatency(_)
SumLatency(S) ==
    IF S = {} THEN 0
    ELSE LET r == CHOOSE x \in S : TRUE
         IN requests[r].latency + SumLatency(S \ {r})

NSucceeded == Cardinality({r \in RequestIds : Succeeded(r)})
NFailed == Cardinality({r \in RequestIds : FailedAfterValidation(r)})
LatencyOfSucceeded == SumLatency({r \in RequestIds : Succeeded(r)})

\* the quotient q of the program equals a / b
RatEq(q, a, b) == q.den # 0 /\ b # 0 /\ q.num * b = a * q.den

\* landmarks is a value with a length, and the length is not 63
WrongCount(p) ==
    p.body = "object" /\ HasLen(p.landmarks) /\ p.landmarks.n # NUM_FEATURES
\* no JSON, no object, or a landmarks member that is missing, empty or a number
Malformed(p) ==
    \/ p.body \in {"unparseable", "nonobject"}
    \/ p.body = "object" /\ p.landmarks.t \in {"none", "num"}
    \/ p.body = "object" /\ p.landmarks.t = "list" /\ p.landmarks.n = 0
\* 63 numbers whose wrist and middle finger tip have the same x and y
ZeroScale(p) ==
    /\ p.body = "object" /\ p.landmarks.t = "list" /\ p.landmarks.n = NUM_FEATURES
    /\ ScaleSq(BuildFrame(p.landmarks.items)) = 0
\* a step of request r
Steps(r) == requests'[r] # requests[r]

----------------------------------------------------------------------------
(* C1 *)

C2_ReportMatchesTallies ==
    report.called =>
        /\ report.prediction_count = NSucceeded
        /\ report.error_count = NFailed
        /\ RatEq(report.error_rate, NFailed, PyMax(NSucceeded, 1))
        /\ IF NSucceeded = 0
           THEN report.average_latency.num = 0 /\ report.average_latency.den # 0
           ELSE RatEq(report.average_latency, LatencyOfSucceeded, NSucceeded)

C2_Witness ==
    /\ report.called
    /\ report.prediction_count >= 1
    /\ report.error_count >= 1
    /\ report.average_latency.num >= 1

(* C3 *)

\* C3: when the classifier or the label encoder is not loaded, every classify
\* request, whatever its body, is answered 500 "Model or encoder not loaded"
\* without its body being read or validated, and the three counters stay as
\* they were (zero).
C3_NotLoadedAnswer ==
    ~Loaded =>
        /\ \A r \in RequestIds :
              /\ requests[r].pc \in {"new", "done"}
              /\ Done(r) => /\ requests[r].response =
                                  HTTPException(500, "Model or encoder not loaded")
                            /\ ~requests[r].called_model
        /\ prediction_count = 0 /\ error_count = 0 /\ latency_sum = 0

C3_Witness ==
    /\ ~Loaded
    /\ \E r1 \in RequestIds, r2 \in RequestIds :
          /\ Done(r1) /\ requests[r1].payload = Body("object", JList(OpenHand))
          /\ Done(r2) /\ requests[r2].payload = Body("unparseable", JNone)

(* C4 *)

\* C4 (as stated): for 63 values whose wrist and middle finger tip coincide,
\* the degenerate scale is detected: no frame with non-finite values is
\* handed on to the classifier, and the request is never answered with a
\* success response.
C4_AsStated ==
    \A r \in RequestIds :
        ZeroScale(requests[r].payload) =>
            /\ requests[r].called_model => requests[r].features_finite
            /\ requests[r].response.status # 200

(* C5 *)

\* C5 (as stated): with the classifier loaded, every classify request whose
\* body is no JSON, no JSON object, or whose landmarks member is missing,
\* empty or no sequence is answered 400 with "Invalid JSON input" or
\* "Expected 63 landmark features", and no exception leaves the handler.
C5_AsStated ==
    \A r \in RequestIds :
        Loaded /\ Done(r) /\ Malformed(requests[r].payload) =>
            /\ requests[r].response.status = 400
            /\ requests[r].response.detail \in
                  {"Invalid JSON input", "Expected 63 landmark features"}
            /\ ~requests[r].response.unhandled

(* C6 *)

\* C6: no step of a classify request whose body is malformed or whose
\* landmark count is not 63 changes prediction_count, error_count or
\* latency_sum, and such a request never calls the classifier.
C6_RejectionLeavesCounters ==
    [][\A r \in RequestIds :
          Steps(r) /\ (Malformed(requests'[r].payload) \/ WrongCount(requests'[r].payload))
              => /\ UNCHANGED counters
                 /\ ~requests'[r].called_model]_vars

C6_Witness ==
    /\ prediction_count >= 1
    /\ \E r \in RequestIds :
          /\ Done(r) /\ requests[r].payload = Body("object", JList(ShortList))
          /\ requests[r].response.status = 400
          /\ ~requests[r].called_model

(* C7 *)

\* C7: every health check returns status "healthy" and model_loaded equal to
\* whether the classifier is loaded, the same load state as the health check
\* before it, and changes no counter, no request and not the loaded model.
C7_HealthCheck ==
    [][health'.called =>
          /\ health'.status = "healthy"
          /\ health'.model_loaded = (model # "None")
          /\ health.called => health'.model_loaded = health.model_loaded
          /\ UNCHANGED <<counters, model, label_encoder, requests>>]_vars

C7_Witness ==
    /\ health.called
    /\ ~health.model_loaded
    /\ model = "None"
    /\ \E r \in RequestIds : Done(r)

(* C8 *)

\* what the claim says the call returns
ExpectedNormalized(df) ==
    [k \in DOMAIN df |->
        IF k % 3 = 1 THEN FDivSqrt(FSub(df[k], df[XCol(1)]), ScaleSq(df))
        ELSE IF k % 3 = 2 THEN FDivSqrt(FSub(df[k], df[YCol(1)]), ScaleSq(df))
        ELSE df[k]]

Quiescent == \A r \in RequestIds : requests[r].pc \in {"new", "done"}

\* C9: under every interleaving of classify requests and metrics reads no
\* counter update is lost: once all dispatched requests have finished,
\* prediction_count is the number of successes, error_count the number of
\* failures after validation and latency_sum the sum of the successes'
\* latencies; and whenever a metrics read returns, latency_sum and
\* prediction_count cover the same requests.
C9_NoLostUpdate ==
    /\ Quiescent =>
          /\ prediction_count = NSucceeded
          /\ error_count = NFailed
          /\ latency_sum = LatencyOfSucceeded
    /\ report.called =>
          /\ prediction_count = NSucceeded
          /\ latency_sum = LatencyOfSucceeded

C9_Witness ==
    /\ report.called
    /\ requests[1].pc = "await_json"
    /\ Succeeded(2)
    /\ requests[2].latency >= 1

(* C10 *)

\* C10: the step that ends a classify request which passed validation leaves
\* the counters either at (prediction_count + 1, latency_sum + latency,
\* error_count) of the values they had when validation passed, with a
\* success response, or at (prediction_count, latency_sum, error_count + 1)
\* with a 500 response whose detail is the failure's message.
C10_ExactlyOneCounter ==
    [][\A r \in RequestIds :
          requests[r].pc \in {"store_prediction_count", "store_error_count"}
          /\ requests'[r].pc = "done"
          => LET b == requests[r].before
             IN \/ /\ requests'[r].response.status = 200
                   /\ prediction_count' = b.prediction_count + 1
                   /\ latency_sum' = b.latency_sum + requests[r].latency
                   /\ error_count' = b.error_count
                \/ /\ requests[r].exc # ""
                   /\ requests'[r].response = HTTPException(500, requests[r].exc)
                   /\ error_count' = b.error_count + 1
                   /\ prediction_count' = b.prediction_count
                   /\ latency_sum' = b.latency_sum]_vars

\* a request failed after validation and the next one was served
C10_Witness ==
    /\ FailedAfterValidation(1)
    /\ requests[1].response.status = 500
    /\ Succeeded(2)
    /\ error_count = 1
    /\ prediction_count = 1

====
